---- MODULE Spec2Model ----
(***************************************************************************)
(* State-of-cloud report generator                                         *)
(* (main/internal/python_scripts/state_of_cloud_report/main.py).           *)
(*                                                                         *)
(* One run of the script is modelled statement group by statement group:   *)
(* __main__ parses the options, create_markdown_file loads the five JSON   *)
(* extracts, runs the aggregators, builds the MdUtils document section by  *)
(* section and finally writes report.md.  Every exception propagates to    *)
(* the `except Exception` of __main__, which re-raises it wrapped: the run *)
(* ends in pc = "failed" with the exception's type in `error`.             *)
(*                                                                         *)
(* Python strings that are concatenated by the code (the drift record's    *)
(* fields) are sequences of one-character strings.  The helpers imported   *)
(* from helpers/ are called as black boxes: a call is logged in `calls`    *)
(* and either returns or raises.  MdUtils calls do not raise.              *)
(***************************************************************************)
EXTENDS Naturals, Sequences, FiniteSets

VARIABLES
    pc,                           \* position in the script
    job_name,                     \* __main__'s job_name ("unbound" until -j is seen)
    new_resources,                \* parsed new-resources-to-documents.json
    resources_to_cloud_actions,   \* parsed resources-to-cloud-actions.json
    divisions_to_cost_estimates,  \* parsed division-to-cost-estimates.json
    divisions_to_security_scan,   \* parsed division-to-security-scan.json
    managed_drift_list_of_dicts,  \* parsed drift-resources-differences.json
    managed_drift_df,             \* the drift DataFrame
    resource_count_dict_of_dfs,   \* local of create_markdown_file
    actor_action_count_df,        \* local of create_markdown_file
    cost_summary_dict_of_dfs,     \* local of create_markdown_file
    markdown_file,                \* the MdUtils document under construction
    calls,                        \* helpers invoked so far, in order
    report_written,               \* number of writes of report.md in this run
    error                         \* type of the exception that ended the run

vars == <<pc, job_name, new_resources, resources_to_cloud_actions,
          divisions_to_cost_estimates, divisions_to_security_scan,
          managed_drift_list_of_dicts, managed_drift_df,
          resource_count_dict_of_dfs, actor_action_count_df,
          cost_summary_dict_of_dfs, markdown_file, calls, report_written, error>>

locals == <<managed_drift_df, resource_count_dict_of_dfs, actor_action_count_df,
            cost_summary_dict_of_dfs>>

extracts == <<new_resources, resources_to_cloud_actions, divisions_to_cost_estimates,
              divisions_to_security_scan, managed_drift_list_of_dicts>>

-----------------------------------------------------------------------------
(* Bounds *)

\* longest drift list explored by SpecDrift
MaxDrift == 2

-----------------------------------------------------------------------------
(* JSON values *)

\* The well-formed JSON values an extract file is given: the empty container
\* of either kind, the other falsy values, and "data", a non-empty container
\* of the kind the code expects.
EmptyValues == {"null", "false", "0", "\"\"", "[]", "{}"}

JsonValues == EmptyValues \cup {"data"}

\* What open()/json.loads can meet instead of a well-formed value.
BadFiles == {"missing", "invalid"}

\* `if x is not None:` in place of `if x:`
TruthyNotNone(v) == v # "null"

\* Python's truth value of a parsed JSON value: `if x:`
Truthy(v) == v \notin EmptyValues

\* Python's len(): defined for str, list and dict only.
HasLen(v) == v \in {"\"\"", "[]", "{}", "data"}

Len0(v) == v \in {"\"\"", "[]", "{}"}

-----------------------------------------------------------------------------
(* Drift records *)

Quote == "\""

\* ' (module) "'
ModuleSep == <<" ", "(", "m", "o", "d", "u", "l", "e", ")", " ", Quote>>

\* '" "'
FieldSep == <<Quote, " ", Quote>>

DriftFields == {"ModuleName", "ResourceType", "ResourceName"}

\* ResourcePath with the separator between type and name left out.
ResourcePathNoSep(r) ==
    r.ModuleName \o ModuleSep \o r.ResourceType \o r.ResourceName \o <<Quote>>

\* managed_drift_df["ResourcePath"] of one row
ResourcePath(r) ==
    r.ModuleName \o ModuleSep \o r.ResourceType \o FieldSep \o r.ResourceName
        \o <<Quote>>

\* pd.DataFrame(list) followed by the ResourcePath column assignment
WithResourcePath(r) ==
    [ModuleName |-> r.ModuleName, ResourceType |-> r.ResourceType,
     ResourceName |-> r.ResourceName, Differences |-> r.Differences,
     ResourcePath |-> ResourcePath(r)]

\* the column lookups managed_drift_df["ModuleName"], ... succeed
HasDriftColumns(rows) == \A i \in 1..Len(rows) : DriftFields \subseteq DOMAIN rows[i]

ModuleNames == {<<"r">>, <<"v", "p", "c">>}

FieldStrings == {<< >>, <<"a">>, FieldSep}

DifferenceValues == {"d1", "d2"}

DriftRecords ==
    [ModuleName : ModuleNames, ResourceType : FieldStrings,
     ResourceName : FieldStrings, Differences : DifferenceValues]

SeqsUpTo(S, n) == UNION {[1..k -> S] : k \in 1..n}

\* every non-empty drift list of at most MaxDrift records
DriftLists == SeqsUpTo(DriftRecords, MaxDrift)

vpc == <<"v", "p", "c">>

\* the drift lists a run of Spec is given
DriftSamples ==
    { <<[ModuleName |-> vpc, ResourceType |-> <<"a">>, ResourceName |-> <<"a">>,
         Differences |-> "d1"]>>,
      <<[ModuleName |-> vpc, ResourceType |-> <<"a">>, ResourceName |-> <<"a">>,
         Differences |-> "d1"],
        [ModuleName |-> vpc, ResourceType |-> <<"a">>, ResourceName |-> <<"a">>,
         Differences |-> "d2"]>>,
      <<[ModuleName |-> vpc, ResourceType |-> <<"a">>, Differences |-> "d1"]>> }

DriftFile(v, rows) == [value |-> v, rows |-> rows]

DriftContents(lists) ==
    {DriftFile(v, << >>) : v \in EmptyValues} \cup {DriftFile("data", l) : l \in lists}

-----------------------------------------------------------------------------
(* Document *)

NoDocument == [created |-> FALSE, title |-> "", items |-> << >>, toc |-> FALSE]

Header(level, title) == [kind |-> "header", level |-> level, title |-> title]

Line(text) == [kind |-> "line", text |-> text]

Table(helper) == [kind |-> "table", by |-> helper]

Emit(items) == markdown_file' = [markdown_file EXCEPT !.items = @ \o items]

Sections == {"security", "cost", "resources", "drift", "actors"}

Title ==
    [security |-> "Identified Security Risks",
     cost |-> "Calculable Cloud Costs (Monthly)",
     resources |-> "Resources Outside of Terraform Control",
     drift |-> "Drifted Resources Managed By Terraform",
     actors |-> "Cloud Actors Causing Changes"]

Placeholder ==
    [security |-> "Security scan not run.",
     cost |-> "Cost estimation not run.",
     resources |-> "No new resources found!",
     drift |-> "No controlled resources have drifted!",
     actors |-> "No identified Cloud Actor actions."]

TableHelper ==
    [security |-> "create_markdown_table_security_scans",
     cost |-> "create_markdown_table_cost_summary",
     resources |-> "create_new_resource_tabular_breakdowns_with_cost",
     drift |-> "create_managed_drift_markdown",
     actors |-> "create_markdown_table_cloud_actor_summary"]

\* A helper call either returns or raises.
Outcomes == {"returns", "raises"}

Fail(e) == pc' = "failed" /\ error' = e

-----------------------------------------------------------------------------
(* Initial state: the interpreter has started the script, nothing is bound *)

Init ==
    /\ pc = "main"
    /\ job_name = "unbound"
    /\ new_resources = "unbound"
    /\ resources_to_cloud_actions = "unbound"
    /\ divisions_to_cost_estimates = "unbound"
    /\ divisions_to_security_scan = "unbound"
    /\ managed_drift_list_of_dicts = DriftFile("unbound", << >>)
    /\ managed_drift_df = [bound |-> FALSE, rows |-> << >>]
    /\ resource_count_dict_of_dfs = "unbound"
    /\ actor_action_count_df = "unbound"
    /\ cost_summary_dict_of_dfs = "unbound"
    /\ markdown_file = NoDocument
    /\ calls = << >>
    /\ report_written = 0
    /\ error = "none"

-----------------------------------------------------------------------------
(* __main__ *)

Argvs == {"-j job -i id", "-i id", "-x"}

\* getopt, the option loop, os.makedirs and the call of create_markdown_file,
\* whose argument job_name is unbound when no -j/--job_name was given.
Main ==
    /\ pc = "main"
    /\ \E argv \in Argvs :
          IF argv = "-x"
          THEN Fail("GetoptError") /\ UNCHANGED job_name
          ELSE IF argv = "-i id"
          THEN Fail("NameError") /\ UNCHANGED job_name
          ELSE job_name' = "job" /\ pc' = "load_new" /\ UNCHANGED error
    /\ UNCHANGED <<extracts, locals, markdown_file, calls, report_written>>

-----------------------------------------------------------------------------
(* create_markdown_file: loading *)

FileContents == JsonValues \cup BadFiles

\* the contents of the four mapping files in SpecDrift
MappingSamples == {"{}"}

\* a loader that goes on after a file it could not parse
OpenedLenient(c, next) ==
    IF c = "missing" THEN Fail("FileNotFoundError")
    ELSE pc' = next /\ UNCHANGED error

\* with open(...) as json_file: x = json.loads(json_file.read())
Opened(c, next) ==
    IF c = "missing" THEN Fail("FileNotFoundError")
    ELSE IF c = "invalid" THEN Fail("JSONDecodeError")
    ELSE pc' = next /\ UNCHANGED error

Loaded(old, c) == IF c \in BadFiles THEN old ELSE c

LoadNewResources(contents) ==
    /\ pc = "load_new"
    /\ \E c \in contents :
          /\ Opened(c, "load_actions")
          /\ new_resources' = Loaded(new_resources, c)
    /\ UNCHANGED <<job_name, resources_to_cloud_actions, divisions_to_cost_estimates,
                   divisions_to_security_scan, managed_drift_list_of_dicts, locals,
                   markdown_file, calls, report_written>>

LoadCloudActions(contents) ==
    /\ pc = "load_actions"
    /\ \E c \in contents :
          /\ Opened(c, "load_cost")
          /\ resources_to_cloud_actions' = Loaded(resources_to_cloud_actions, c)
    /\ UNCHANGED <<job_name, new_resources, divisions_to_cost_estimates,
                   divisions_to_security_scan, managed_drift_list_of_dicts, locals,
                   markdown_file, calls, report_written>>

LoadCostEstimates(contents) ==
    /\ pc = "load_cost"
    /\ \E c \in contents :
          /\ Opened(c, "load_security")
          /\ divisions_to_cost_estimates' = Loaded(divisions_to_cost_estimates, c)
    /\ UNCHANGED <<job_name, new_resources, resources_to_cloud_actions,
                   divisions_to_security_scan, managed_drift_list_of_dicts, locals,
                   markdown_file, calls, report_written>>

LoadSecurityScan(contents) ==
    /\ pc = "load_security"
    /\ \E c \in contents :
          /\ Opened(c, "load_drift")
          /\ divisions_to_security_scan' = Loaded(divisions_to_security_scan, c)
    /\ UNCHANGED <<job_name, new_resources, resources_to_cloud_actions,
                   divisions_to_cost_estimates, managed_drift_list_of_dicts, locals,
                   markdown_file, calls, report_written>>

LoadDrift(bad, lists) ==
    /\ pc = "load_drift"
    /\ \E c \in {DriftFile(b, << >>) : b \in bad} \cup DriftContents(lists) :
          /\ Opened(c.value, "drift_frame")
          /\ managed_drift_list_of_dicts' =
                 IF c.value \in BadFiles THEN managed_drift_list_of_dicts ELSE c
    /\ UNCHANGED <<job_name, new_resources, resources_to_cloud_actions,
                   divisions_to_cost_estimates, divisions_to_security_scan, locals,
                   markdown_file, calls, report_written>>

-----------------------------------------------------------------------------
(* create_markdown_file: aggregation *)

\* if managed_drift_list_of_dicts: DataFrame + ResourcePath column, else an
\* empty DataFrame.  A record without one of the three columns raises KeyError.
DriftFrame ==
    /\ pc = "drift_frame"
    /\ IF Truthy(managed_drift_list_of_dicts.value)
       THEN /\ calls' = Append(calls, "managed_drift_df")
            /\ IF HasDriftColumns(managed_drift_list_of_dicts.rows)
               THEN /\ managed_drift_df' =
                          [bound |-> TRUE,
                           rows |-> [i \in 1..Len(managed_drift_list_of_dicts.rows) |->
                                       WithResourcePath(managed_drift_list_of_dicts.rows[i])]]
                    /\ pc' = "new_resources"
                    /\ UNCHANGED error
               ELSE Fail("KeyError") /\ UNCHANGED managed_drift_df
       ELSE /\ managed_drift_df' = [bound |-> TRUE, rows |-> << >>]
            /\ pc' = "new_resources"
            /\ UNCHANGED <<calls, error>>
    /\ UNCHANGED <<job_name, extracts, resource_count_dict_of_dfs, actor_action_count_df,
                   cost_summary_dict_of_dfs, markdown_file, report_written>>

\* What process_new_resources returns for a non-empty extract: a mapping from
\* each breakdown dimension to its count table, which is not empty.
ProcessNewResourcesResult == "nonempty"

\* resource_count_dict_of_dfs = {}; if len(new_resources) > 0: process_new_resources
NewResources ==
    /\ pc = "new_resources"
    /\ IF ~HasLen(new_resources)
       THEN Fail("TypeError") /\ resource_count_dict_of_dfs' = "empty" /\ UNCHANGED calls
       ELSE IF ~Len0(new_resources)
       THEN /\ calls' = Append(calls, "process_new_resources")
            /\ \E o \in Outcomes :
                  IF o = "returns"
                  THEN /\ resource_count_dict_of_dfs' = ProcessNewResourcesResult
                       /\ pc' = "cloud_actors"
                       /\ UNCHANGED error
                  ELSE Fail("HelperError") /\ resource_count_dict_of_dfs' = "empty"
       ELSE /\ resource_count_dict_of_dfs' = "empty"
            /\ pc' = "cloud_actors"
            /\ UNCHANGED <<calls, error>>
    /\ UNCHANGED <<job_name, extracts, managed_drift_df, actor_action_count_df,
                   cost_summary_dict_of_dfs, markdown_file, report_written>>

\* if resources_to_cloud_actions: actor_action_count_df = process_cloud_actor_actions(...)
CloudActors ==
    /\ pc = "cloud_actors"
    /\ IF Truthy(resources_to_cloud_actions)
       THEN /\ calls' = Append(calls, "process_cloud_actor_actions")
            /\ \E o \in Outcomes :
                  IF o = "returns"
                  THEN /\ actor_action_count_df' = "bound"
                       /\ pc' = "pricing"
                       /\ UNCHANGED error
                  ELSE Fail("HelperError") /\ UNCHANGED actor_action_count_df
       ELSE pc' = "pricing" /\ UNCHANGED <<actor_action_count_df, calls, error>>
    /\ UNCHANGED <<job_name, extracts, managed_drift_df, resource_count_dict_of_dfs,
                   cost_summary_dict_of_dfs, markdown_file, report_written>>

\* if divisions_to_cost_estimates: cost_summary_dict_of_dfs = process_pricing_data(...)
Pricing ==
    /\ pc = "pricing"
    /\ IF Truthy(divisions_to_cost_estimates)
       THEN /\ calls' = Append(calls, "process_pricing_data")
            /\ \E o \in Outcomes :
                  IF o = "returns"
                  THEN /\ cost_summary_dict_of_dfs' = "bound"
                       /\ pc' = "create_doc"
                       /\ UNCHANGED error
                  ELSE Fail("HelperError") /\ UNCHANGED cost_summary_dict_of_dfs
       ELSE pc' = "create_doc" /\ UNCHANGED <<cost_summary_dict_of_dfs, calls, error>>
    /\ UNCHANGED <<job_name, extracts, managed_drift_df, resource_count_dict_of_dfs,
                   actor_action_count_df, markdown_file, report_written>>

-----------------------------------------------------------------------------
(* create_markdown_file: composition *)

Unchanged_by_header ==
    UNCHANGED <<job_name, extracts, locals, calls, report_written, error>>

\* the condition of the `if` that chooses a section's body
HasData(s) ==
    CASE s = "security" -> Truthy(divisions_to_security_scan)
      [] s = "cost" -> Truthy(divisions_to_cost_estimates)
      [] s = "resources" -> resource_count_dict_of_dfs = "nonempty"
      [] s = "drift" -> Len(managed_drift_df.rows) > 0
      [] s = "actors" -> Truthy(resources_to_cloud_actions)

\* a document object that creates report.md as soon as it is constructed
CreateDocWriting ==
    /\ pc = "create_doc"
    /\ markdown_file' =
           [created |-> TRUE,
            title |-> <<job_name, " - State of Scanned Cloud Resources">>,
            items |-> << >>, toc |-> FALSE]
    /\ report_written' = report_written + 1
    /\ pc' = "intro"
    /\ UNCHANGED <<job_name, extracts, locals, calls, error>>

\* markdown_file = MdUtils(file_name=..., title=...): nothing is written yet
CreateDoc ==
    /\ pc = "create_doc"
    /\ markdown_file' =
           [created |-> TRUE,
            title |-> <<job_name, " - State of Scanned Cloud Resources">>,
            items |-> << >>, toc |-> FALSE]
    /\ pc' = "intro"
    /\ Unchanged_by_header

\* the first header and its paragraph
IntroItems == <<Header(1, "How to Read this Report"), Line("Your job ... has run.")>>

Intro ==
    /\ pc = "intro"
    /\ Emit(IntroItems)
    /\ pc' = "security_header"
    /\ Unchanged_by_header

SecurityHeader ==
    /\ pc = "security_header"
    /\ Emit(<<Header(1, Title.security)>>)
    /\ pc' = "security_body"
    /\ Unchanged_by_header

\* if divisions_to_security_scan: aggregate, then render; else the placeholder
SecurityBody ==
    /\ pc = "security_body"
    /\ IF HasData("security")
       THEN \E o \in Outcomes, r \in Outcomes :
               IF o = "raises"
               THEN /\ calls' = Append(calls, "division_to_security_scan_to_df_dict")
                    /\ Fail("HelperError")
                    /\ UNCHANGED markdown_file
               ELSE /\ calls' = calls \o <<"division_to_security_scan_to_df_dict",
                                          TableHelper.security>>
                    /\ IF r = "raises"
                       THEN Fail("HelperError") /\ UNCHANGED markdown_file
                       ELSE /\ Emit(<<Table(TableHelper.security)>>)
                            /\ pc' = "cost_header"
                            /\ UNCHANGED error
       ELSE /\ Emit(<<Line(Placeholder.security)>>)
            /\ pc' = "cost_header"
            /\ UNCHANGED <<calls, error>>
    /\ UNCHANGED <<job_name, extracts, locals, report_written>>

CostHeader ==
    /\ pc = "cost_header"
    /\ Emit(<<Header(1, Title.cost)>>)
    /\ pc' = "cost_body"
    /\ Unchanged_by_header

\* a rendering helper is called on the document: it appends its table or raises
Render(s, next) ==
    /\ calls' = Append(calls, TableHelper[s])
    /\ \E r \in Outcomes :
          IF r = "raises"
          THEN Fail("HelperError") /\ UNCHANGED markdown_file
          ELSE /\ Emit(<<Table(TableHelper[s])>>)
               /\ pc' = next
               /\ UNCHANGED error

\* a branch that leaves the placeholder out
NoDataSilent(s, next) ==
    /\ pc' = next
    /\ UNCHANGED <<markdown_file, calls, error>>

\* markdown_file.new_line(<placeholder>)
NoData(s, next) ==
    /\ Emit(<<Line(Placeholder[s])>>)
    /\ pc' = next
    /\ UNCHANGED <<calls, error>>

\* if divisions_to_cost_estimates: cost_summary_dict_of_dfs["cost_summary"] is read
CostBody ==
    /\ pc = "cost_body"
    /\ IF HasData("cost")
       THEN IF cost_summary_dict_of_dfs = "unbound"
            THEN Fail("UnboundLocalError") /\ UNCHANGED <<markdown_file, calls>>
            ELSE Render("cost", "resources_header")
       ELSE NoData("cost", "resources_header")
    /\ UNCHANGED <<job_name, extracts, locals, report_written>>

ResourcesHeader ==
    /\ pc = "resources_header"
    /\ Emit(<<Header(1, Title.resources)>>)
    /\ pc' = "resources_body"
    /\ Unchanged_by_header

\* The third argument of the helper: the conditional expression
\* `cost_summary_dict_of_dfs[...] if cost_summary_dict_of_dfs else pd.DataFrame()`
\* reads the local, which is bound only when the cost extract was truthy.
CostArgumentReadable(c) == c # "unbound"

\* if len(resource_count_dict_of_dfs) > 0: render with the cost table, else placeholder
ResourcesBody ==
    /\ pc = "resources_body"
    /\ IF HasData("resources")
       THEN IF ~CostArgumentReadable(cost_summary_dict_of_dfs)
            THEN Fail("UnboundLocalError") /\ UNCHANGED <<markdown_file, calls>>
            ELSE Render("resources", "drift_header")
       ELSE NoData("resources", "drift_header")
    /\ UNCHANGED <<job_name, extracts, locals, report_written>>

DriftHeader ==
    /\ pc = "drift_header"
    /\ Emit(<<Header(1, Title.drift)>>)
    /\ pc' = "drift_body"
    /\ Unchanged_by_header

\* if not managed_drift_df.empty
DriftBody ==
    /\ pc = "drift_body"
    /\ IF HasData("drift")
       THEN Render("drift", "actors_header")
       ELSE NoData("drift", "actors_header")
    /\ UNCHANGED <<job_name, extracts, locals, report_written>>

\* the two headers of the last section, the first with the drift section's title
ActorsHeaderCopied ==
    /\ pc = "actors_header"
    /\ Emit(<<Header(1, Title.drift), Header(2, Title.actors)>>)
    /\ pc' = "actors_body"
    /\ Unchanged_by_header

ActorsHeader ==
    /\ pc = "actors_header"
    /\ Emit(<<Header(1, "Root Causes of Drift"), Header(2, Title.actors)>>)
    /\ pc' = "actors_body"
    /\ Unchanged_by_header

\* a body that runs the actor aggregation itself, as the security body does
ActorsBodyLazy ==
    /\ pc = "actors_body"
    /\ IF HasData("actors")
       THEN /\ calls' = calls \o <<"process_cloud_actor_actions", TableHelper.actors>>
            /\ Emit(<<Table(TableHelper.actors)>>)
            /\ pc' = "disclaimer"
            /\ UNCHANGED error
       ELSE NoData("actors", "disclaimer")
    /\ UNCHANGED <<job_name, extracts, locals, report_written>>

\* if resources_to_cloud_actions: actor_action_count_df is read
ActorsBody ==
    /\ pc = "actors_body"
    /\ IF HasData("actors")
       THEN IF actor_action_count_df = "unbound"
            THEN Fail("UnboundLocalError") /\ UNCHANGED <<markdown_file, calls>>
            ELSE Render("actors", "disclaimer")
       ELSE NoData("actors", "disclaimer")
    /\ UNCHANGED <<job_name, extracts, locals, report_written>>

\* the last line of the document: the generation timestamp
Timestamp == Line("Created by Cloud Concierge at HH:MM UTC on YYYY-MM-DD")

\* the disclaimer header, its two paragraphs and the timestamp line
Disclaimer ==
    /\ pc = "disclaimer"
    /\ Emit(<<Header(4, "Disclaimer"), Line("*Indicates ..."), Line(""),
              Line("This report presents ..."), Line(""), Timestamp>>)
    /\ pc' = "toc"
    /\ Unchanged_by_header

\* markdown_file.new_table_of_contents(table_title="Contents", depth=1)
TableOfContents ==
    /\ pc = "toc"
    /\ markdown_file' = [markdown_file EXCEPT !.toc = TRUE]
    /\ pc' = "write"
    /\ Unchanged_by_header

\* markdown_file.create_md_file()
CreateMdFile ==
    /\ pc = "write"
    /\ report_written' = report_written + 1
    /\ pc' = "done"
    /\ UNCHANGED <<job_name, extracts, locals, markdown_file, calls, error>>

-----------------------------------------------------------------------------
(* Specifications *)

Compose ==
    \/ CreateDoc \/ Intro
    \/ SecurityHeader \/ SecurityBody
    \/ CostHeader \/ CostBody
    \/ ResourcesHeader \/ ResourcesBody
    \/ DriftHeader \/ DriftBody
    \/ ActorsHeader \/ ActorsBody
    \/ Disclaimer \/ TableOfContents \/ CreateMdFile

Aggregate == DriftFrame \/ NewResources \/ CloudActors \/ Pricing

\* a run of the script over any contents of the five files
Next ==
    \/ Main
    \/ LoadNewResources(FileContents)
    \/ LoadCloudActions(FileContents)
    \/ LoadCostEstimates(FileContents)
    \/ LoadSecurityScan(FileContents)
    \/ LoadDrift(BadFiles, DriftSamples)
    \/ Aggregate
    \/ Compose

Spec == Init /\ [][Next]_vars

\* a run of the script over every drift list of at most MaxDrift records
NextDrift ==
    \/ Main
    \/ LoadNewResources(MappingSamples)
    \/ LoadCloudActions(MappingSamples)
    \/ LoadCostEstimates(MappingSamples)
    \/ LoadSecurityScan(MappingSamples)
    \/ LoadDrift({}, DriftLists)
    \/ Aggregate
    \/ Compose

SpecDrift == Init /\ [][NextDrift]_vars

Terminated == pc \in {"done", "failed"}

-----------------------------------------------------------------------------
(* Reading the state *)

Items == markdown_file.items

IsHeader(it) == it.kind = "header"

\* the titles of the headers emitted so far, in order
HeaderTitles ==
    LET H == SelectSeq(Items, IsHeader) IN [i \in 1..Len(H) |-> H[i].title]

\* the headers create_markdown_file emits in a complete pass
AllHeadings ==
    <<"How to Read this Report", Title.security, Title.cost, Title.resources,
      Title.drift, "Root Causes of Drift", Title.actors, "Disclaimer">>

HeaderPlaces(s) ==
    {i \in 1..Len(Items) : IsHeader(Items[i]) /\ Items[i].title = Title[s]}

HeaderEmitted(s) == HeaderPlaces(s) # {}

FirstPlace(s) == CHOOSE i \in HeaderPlaces(s) : \A j \in HeaderPlaces(s) : i <= j

BodyEmitted(s) == HeaderEmitted(s) /\ FirstPlace(s) < Len(Items)

\* the item that follows the section's header
BodyOf(s) == Items[FirstPlace(s) + 1]

IsPlaceholder(s) == BodyEmitted(s) /\ BodyOf(s) = Line(Placeholder[s])

IsTable(s) == BodyEmitted(s) /\ BodyOf(s) = Table(TableHelper[s])

\* the extract a section reports on
Extract(s) ==
    CASE s = "security" -> divisions_to_security_scan
      [] s = "cost" -> divisions_to_cost_estimates
      [] s = "resources" -> new_resources
      [] s = "drift" -> managed_drift_list_of_dicts.value
      [] s = "actors" -> resources_to_cloud_actions

\* the empty container of the kind the extract is documented to have
ExpectedEmpty(s) == IF s = "drift" THEN "[]" ELSE "{}"

AllLoaded == \A s \in Sections : Extract(s) # "unbound"

\* every extract is of its documented kind, empty or not
ExpectedKinds == \A s \in Sections : Extract(s) \in {ExpectedEmpty(s), "data"}

\* the run was ended by an exception raised inside a helper or by pandas
HelperRaised == error \in {"HelperError", "KeyError"}

Aggregator ==
    [security |-> "division_to_security_scan_to_df_dict",
     cost |-> "process_pricing_data",
     resources |-> "process_new_resources",
     drift |-> "managed_drift_df",
     actors |-> "process_cloud_actor_actions"]

Called(h) == \E i \in 1..Len(calls) : calls[i] = h

\* the helpers invoked by the step
NewCalls == {calls'[i] : i \in (Len(calls) + 1)..Len(calls')}

-----------------------------------------------------------------------------
(* Claims *)

\* C1 (as claimed): once a run over non-empty new_resources and an empty
\* division-to-cost-estimates extract has ended, and no helper raised, it has
\* not failed: the resources section holds the table rendered from the
\* resource counts and the report has been written.
C1_NoFailureWithoutCost ==
    (Terminated /\ AllLoaded /\ new_resources = "data"
        /\ divisions_to_cost_estimates = "{}" /\ ~HelperRaised)
    => (pc = "done" /\ IsTable("resources") /\ report_written = 1)

AllEmpty == \A s \in Sections : Extract(s) = ExpectedEmpty(s)

NoTable == \A i \in 1..Len(Items) : Items[i].kind # "table"

\* C2: when all five extracts are empty the run never fails and never stops
\* short of the end, no aggregator or rendering helper is invoked and no table
\* is emitted; at the end the report is written, the headers are exactly the
\* unconditional headings and every data section's body is its placeholder.
C2_AllEmptyReport ==
    AllEmpty =>
        /\ pc # "failed"
        /\ calls = << >>
        /\ NoTable
        /\ pc # "done" => ENABLED Next
        /\ pc = "done" =>
              /\ report_written = 1
              /\ HeaderTitles = AllHeadings
              /\ \A s \in Sections : IsPlaceholder(s)

C2_Witness ==
    /\ AllEmpty
    /\ pc = "done"
    /\ report_written = 1
    /\ \A s \in Sections : IsPlaceholder(s)

\* C3 (as claimed): for each of the 32 combinations of empty and non-empty
\* extracts, a run in which no helper raised ends with the same ordered
\* sequence of headers.
C3_SameHeadings ==
    (Terminated /\ AllLoaded /\ ExpectedKinds /\ ~HelperRaised)
    => HeaderTitles = AllHeadings

\* C4 (as claimed): for each of the 32 combinations, when a run in which no
\* helper raised has ended, every data section has its header, and its body is
\* the placeholder exactly when its extract is empty and the helper's table
\* exactly when it is not.
C4_PlaceholderOrTable ==
    (Terminated /\ AllLoaded /\ ExpectedKinds /\ ~HelperRaised)
    => \A s \in Sections :
          /\ HeaderEmitted(s)
          /\ IsPlaceholder(s) <=> Extract(s) = ExpectedEmpty(s)
          /\ IsTable(s) <=> Extract(s) = "data"

\* C5: report.md is written at most once, only at the end of a run whose
\* document holds every section, the timestamp and the table of contents, and
\* a failed run has written nothing.
C5_SingleFinalWrite ==
    /\ report_written <= 1
    /\ report_written = 1 =>
          /\ pc = "done"
          /\ markdown_file.toc
          /\ HeaderTitles = AllHeadings
          /\ \A s \in Sections : BodyEmitted(s)
          /\ Items[Len(Items)] = Timestamp
    /\ pc = "failed" => report_written = 0
    /\ pc = "done" => report_written = 1

C5_Witness ==
    /\ pc = "done"
    /\ report_written = 1
    /\ markdown_file.toc
    /\ IsTable("resources")

\* C6 (as claimed): no aggregator is invoked once the document exists.
C6_ComposerAfterAggregators ==
    [][\A s \in Sections : Aggregator[s] \in NewCalls => ~markdown_file.created]_vars

\* C6 (amended): an aggregator is invoked only while its own section has no
\* body, and a table in a section implies that its aggregator has been run;
\* every aggregator but the security scan's is invoked before the document
\* exists, the security scan's when the document holds the introduction and
\* the security header and nothing else.
C6_AggregatorBeforeOwnBody ==
    /\ [](\A s \in Sections : IsTable(s) => Called(Aggregator[s]))
    /\ [][\A s \in Sections :
            Aggregator[s] \in NewCalls =>
               /\ ~BodyEmitted(s)
               /\ s # "security" => ~markdown_file.created /\ ~markdown_file'.created
               /\ s = "security" => Items = IntroItems \o <<Header(1, Title.security)>>
         ]_vars

C6_Witness ==
    /\ IsTable("security")
    /\ Called("division_to_security_scan_to_df_dict")
    /\ Called("process_pricing_data")
    /\ Called("process_new_resources")
    /\ Called("process_cloud_actor_actions")
    /\ Called("managed_drift_df")

LoadErrors == {"FileNotFoundError", "JSONDecodeError"}

LoadPositions ==
    {"main", "load_new", "load_actions", "load_cost", "load_security", "load_drift"}

\* C7: while an extract is not loaded the run is still loading or has failed,
\* and no aggregator has been invoked, no document created, no header emitted
\* and no report written; a load error ends the run with an extract not loaded.
C7_LoadFailureAbortsBeforeOutput ==
    /\ ~AllLoaded =>
          /\ pc \in LoadPositions \cup {"failed"}
          /\ calls = << >>
          /\ markdown_file = NoDocument
          /\ report_written = 0
    /\ error \in LoadErrors => pc = "failed" /\ ~AllLoaded

C7_Witness ==
    /\ pc = "failed"
    /\ error = "JSONDecodeError"
    /\ new_resources = "data"
    /\ resources_to_cloud_actions = "data"
    /\ divisions_to_cost_estimates = "data"
    /\ divisions_to_security_scan = "unbound"
    /\ calls = << >>

\* C8 (as claimed): a placeholder is rendered only for the empty container of
\* the extract's documented kind, and a run given any other empty value
\* (null, false, 0, "", the other empty container) fails.
C8_OnlyExpectedEmptyIsNoData ==
    \A s \in Sections :
       /\ IsPlaceholder(s) => Extract(s) = ExpectedEmpty(s)
       /\ (Terminated /\ AllLoaded /\ Extract(s) \in EmptyValues \ {ExpectedEmpty(s)})
             => pc = "failed"

\* the values the code takes for "no data"
NoDataValues(s) == IF s = "resources" THEN {"\"\"", "[]", "{}"} ELSE EmptyValues

\* C8 (amended): every falsy value of the security, cost, drift and actions
\* extracts, and every value of length 0 of new_resources, is "no data": its
\* section's body is the placeholder and a run given only such values does not
\* fail; new_resources being null, false or 0 fails the run at len() before the
\* document is created.
C8_FalsyIsNoData ==
    /\ \A s \in Sections : (BodyEmitted(s) /\ Extract(s) \in EmptyValues) => IsPlaceholder(s)
    /\ (AllLoaded /\ \A s \in Sections : Extract(s) \in NoDataValues(s)) => pc # "failed"
    /\ (AllLoaded /\ new_resources \in {"null", "false", "0"}
           /\ pc \notin {"drift_frame", "new_resources"})
          => /\ pc = "failed"
             /\ error \in {"TypeError", "KeyError"}
             /\ ~markdown_file.created

C8_Witness ==
    /\ pc = "done"
    /\ divisions_to_security_scan = "null"
    /\ divisions_to_cost_estimates = "[]"
    /\ new_resources = "\"\""
    /\ managed_drift_list_of_dicts.value = "{}"
    /\ resources_to_cloud_actions = "0"
    /\ \A s \in Sections : IsPlaceholder(s)

Rows == managed_drift_df.rows

Triple(r) == <<r.ModuleName, r.ResourceType, r.ResourceName>>

NoQuote(str) == \A k \in 1..Len(str) : str[k] # Quote

QuoteFree(r) == NoQuote(r.ModuleName) /\ NoQuote(r.ResourceType) /\ NoQuote(r.ResourceName)

\* C9 (as claimed): no two distinct records of the drift DataFrame carry the
\* same ResourcePath.
C9_PathIdentifiesRecord ==
    \A i, j \in 1..Len(Rows) :
       Rows[i] # Rows[j] => Rows[i].ResourcePath # Rows[j].ResourcePath

\* C9 (amended): ResourcePath identifies the resource, not the record: rows
\* with the same ModuleName, ResourceType and ResourceName carry the same
\* ResourcePath, and rows with the same ResourcePath whose three fields hold
\* no double quote have the same ModuleName, ResourceType and ResourceName.
C9_PathIdentifiesResource ==
    \A i, j \in 1..Len(Rows) :
       /\ Triple(Rows[i]) = Triple(Rows[j]) => Rows[i].ResourcePath = Rows[j].ResourcePath
       /\ (QuoteFree(Rows[i]) /\ QuoteFree(Rows[j])
              /\ Rows[i].ResourcePath = Rows[j].ResourcePath)
             => Triple(Rows[i]) = Triple(Rows[j])

C9_Witness ==
    /\ Len(Rows) = 2
    /\ Rows[1] # Rows[2]
    /\ QuoteFree(Rows[1]) /\ QuoteFree(Rows[2])
    /\ Rows[1].ResourcePath = Rows[2].ResourcePath
    /\ IsTable("drift")

Order == <<"security", "cost", "resources", "drift", "actors">>

Above(s) == {Order[i] : i \in {i \in 1..Len(Order) : \E j \in (i + 1)..Len(Order) : Order[j] = s}}

\* the state of a section, read off the document and the branch condition
SectionState(s) ==
    IF BodyEmitted(s) THEN "Rendered"
    ELSE IF HeaderEmitted(s)
    THEN IF HasData(s) THEN "DataAvailable" ELSE "NoDataPlaceholder"
    ELSE "Pending"

Moves(a, b) ==
    \/ a = b
    \/ a = "Pending" /\ b \in {"DataAvailable", "NoDataPlaceholder"}
    \/ a \in {"DataAvailable", "NoDataPlaceholder"} /\ b = "Rendered"

BodyPlaces(s) ==
    {i \in 1..Len(Items) : Items[i] \in {Line(Placeholder[s]), Table(TableHelper[s])}}

\* C10: a section only moves Pending -> DataAvailable or NoDataPlaceholder ->
\* Rendered, rendered as a table from DataAvailable and as the placeholder from
\* NoDataPlaceholder; a section is entered only when every section above it is
\* Rendered; no header and no body of a section is emitted twice.
C10_SectionStateMachine ==
    /\ [](\A s \in Sections :
            /\ Cardinality(HeaderPlaces(s)) <= 1
            /\ Cardinality(BodyPlaces(s)) <= 1
            /\ SectionState(s) # "Pending" =>
                  \A t \in Above(s) : SectionState(t) = "Rendered")
    /\ [][\A s \in Sections :
            /\ Moves(SectionState(s), SectionState(s)')
            /\ (SectionState(s) = "DataAvailable" /\ SectionState(s)' = "Rendered")
                  => IsTable(s)'
            /\ (SectionState(s) = "NoDataPlaceholder" /\ SectionState(s)' = "Rendered")
                  => IsPlaceholder(s)'
         ]_vars

C10_Witness ==
    /\ SectionState("security") = "Rendered"
    /\ SectionState("cost") = "Rendered"
    /\ SectionState("resources") = "DataAvailable"
    /\ SectionState("drift") = "Pending"
    /\ SectionState("actors") = "Pending"

====
